---------------------------- MODULE Spec2Model ----------------------------
(***************************************************************************)
(* Business-proposal system: the Node gateway (server.ts: callAI and its   *)
(* two request handlers), the Laravel caller client (McpClient.php) and    *)
(* the controller that uses it (BusinessProposalController.php).           *)
(*                                                                         *)
(* Spec     the gateway serving requests sent straight to its two          *)
(*          endpoints, MaxReq of them in flight at once.                   *)
(* SpecApp  the Laravel application serving create / preview requests;     *)
(*          each one reaches the gateway through McpClient.                *)
(***************************************************************************)
EXTENDS Integers, Sequences, FiniteSets, TLC

\* Number of request slots (requests that may be in flight together).
MaxReq == 2

Slots == 1 .. MaxReq

(***************************************************************************)
(* JavaScript / JSON / PHP values.  A value is a tagged record, so that    *)
(* undefined, null and the empty string stay three different things.       *)
(***************************************************************************)
Undefined == [k |-> "undefined", v |-> ""]
Null      == [k |-> "null", v |-> ""]
Str(s)    == [k |-> "string", v |-> s]

IsString(x) == x.k = "string"

\* JavaScript truthiness of a value (undefined, null and '' are falsy).
Truthy(x) == x.k = "string" /\ x.v # ""

\* String conversion inside a template literal: `${x}`.
ToStr(x) == IF x.k = "string" THEN x.v ELSE x.k

(***************************************************************************)
(* Gateway configuration                                                   *)
(***************************************************************************)
Providers == {"groq", "openai", "deepseek", "gemini"}

\* Values the AI_PROVIDER environment variable is given in this model.
EnvProviders == {Undefined, Str("deepseek"), Str("unknown-vendor")}

\* server.ts:12   process.env.AI_PROVIDER || 'groq'
DefaultProviderOf(envValue) == IF Truthy(envValue) THEN envValue ELSE Str("groq")


VARIABLES
  defaultProvider,  \* server.ts:12, fixed when the gateway process starts
  mcpDefault,       \* McpClient.php:15, $this->defaultProvider
  gw,               \* gateway requests, one per slot
  app,              \* Laravel requests, one per slot
  db,               \* the business_proposals table, in insertion order
  credentials,      \* server.ts:6, the API keys the gateway's environment sets
  listening,        \* server.ts:171, whether the gateway accepts requests
  ui                \* BusinessProposal.tsx:5-12, the component's state and the
                    \* handler that is awaiting its request

vars == <<defaultProvider, mcpDefault, gw, app, db, credentials, listening, ui>>

(***************************************************************************)
(* callAI  (server.ts:23-136)                                              *)
(***************************************************************************)
NoErr == [name |-> "", message |-> "", data |-> Undefined]

\* server.ts:135
UnsupportedErr == [name |-> "Error", message |-> "Unsupported provider", data |-> Undefined]

\* axios rejects without a response (no connection, DNS, reset).
NetworkErr == [name |-> "AxiosError", message |-> "Network Error", data |-> Undefined]

\* axios rejects a non-2xx answer; err.response.data is the vendor's payload.
StatusErr(payload) ==
  [name |-> "AxiosError", message |-> "Request failed with status code", data |-> payload]

\* `res.data.choices` / `res.data.candidates` when res.data is null.
TypeErr == [name |-> "TypeError", message |-> "Cannot read properties of null", data |-> Undefined]

\* What the vendor's answer to one axios.post can be.
Network      == [kind |-> "network", payload |-> Undefined, shape |-> "", content |-> Undefined]
Status(p)    == [kind |-> "status", payload |-> Str(p), shape |-> "", content |-> Undefined]
\* 2xx, body an object; content is the value at the vendor's content path
\* (Undefined: the path is absent, as in {} or {choices: []}).
Ok(content)  == [kind |-> "ok", payload |-> Undefined, shape |-> "object", content |-> content]
\* 2xx, body the JSON value null.
OkNullBody   == [kind |-> "ok", payload |-> Undefined, shape |-> "null", content |-> Undefined]
NoOutcome    == [kind |-> "", payload |-> Undefined, shape |-> "", content |-> Undefined]

Outcomes ==
  { Network, Status("quota exceeded"), Status("invalid api key"),
    Ok(Str("We build high-quality applications.")), Ok(Undefined), Ok(Null), OkNullBody }

\* Variant: the identifier is trimmed and lower-cased before it is compared.
BranchNormalised(provider) ==
  IF provider \in {Str("groq"), Str("Groq"), Str(" groq ")} THEN "groq"
  ELSE IF provider = Str("openai") THEN "openai"
  ELSE IF provider = Str("deepseek") THEN "deepseek"
  ELSE IF provider = Str("gemini") THEN "gemini"
  ELSE "none"

\* Variant: an unrecognised provider is served by the first branch.
BranchFallback(provider) ==
  IF provider = Str("openai") THEN "openai"
  ELSE IF provider = Str("deepseek") THEN "deepseek"
  ELSE IF provider = Str("gemini") THEN "gemini"
  ELSE "groq"

\* The chain of `if (provider === '...')` tests; "none" falls through to the throw.
Branch(provider) ==
  IF provider = Str("groq") THEN "groq"
  ELSE IF provider = Str("openai") THEN "openai"
  ELSE IF provider = Str("deepseek") THEN "deepseek"
  ELSE IF provider = Str("gemini") THEN "gemini"
  ELSE "none"

VendorUrl(branch) ==
  CASE branch = "groq"     -> "https://api.groq.com/openai/v1/chat/completions"
    [] branch = "openai"   -> "https://api.openai.com/v1/chat/completions"
    [] branch = "deepseek" -> "https://api.deepseek.com/v1/chat/completions"
    [] branch = "gemini"   ->
         "https://generativelanguage.googleapis.com/v1beta/models/gemini-pro:generateContent"

VendorModel(branch) ==
  CASE branch = "groq"     -> "meta-llama/llama-4-scout-17b-16e-instruct"
    [] branch = "openai"   -> "gpt-4"
    [] branch = "deepseek" -> "deepseek-chat"
    [] branch = "gemini"   -> "gemini-pro"

VendorCredential(branch) ==
  CASE branch = "groq"     -> "GROQ_API_KEY"
    [] branch = "openai"   -> "CHATGPT_API_KEY"
    [] branch = "deepseek" -> "DEEPSEEK_API_KEY"
    [] branch = "gemini"   -> "GEMINI_API_KEY"

\* Variant: the system message is sent whether or not systemPrompt is empty.
ChatMessagesAlwaysSystem(systemPrompt, userPrompt) ==
  <<[role |-> "system", content |-> systemPrompt], [role |-> "user", content |-> userPrompt]>>

\* messages: [...(systemPrompt ? [{role:'system',...}] : []), {role:'user', content: userPrompt}]
ChatMessages(systemPrompt, userPrompt) ==
  (IF Truthy(systemPrompt) THEN <<[role |-> "system", content |-> systemPrompt]>> ELSE <<>>)
    \o <<[role |-> "user", content |-> userPrompt]>>

\* fullPrompt = systemPrompt ? `${systemPrompt}\n\n${userPrompt}` : userPrompt
FullPrompt(systemPrompt, userPrompt) ==
  IF Truthy(systemPrompt)
    THEN Str(ToStr(systemPrompt) \o "\n\n" \o ToStr(userPrompt))
    ELSE userPrompt

\* The one axios.post a branch issues.
VendorRequest(branch, systemPrompt, userPrompt) ==
  IF branch = "gemini"
    THEN [vendor |-> branch, url |-> VendorUrl(branch), auth |-> "query",
          credential |-> VendorCredential(branch), model |-> VendorModel(branch),
          messages |-> <<>>, text |-> FullPrompt(systemPrompt, userPrompt),
          temperature |-> ""]
    ELSE [vendor |-> branch, url |-> VendorUrl(branch), auth |-> "bearer",
          credential |-> VendorCredential(branch), model |-> VendorModel(branch),
          messages |-> ChatMessages(systemPrompt, userPrompt), text |-> Undefined,
          temperature |-> "0.7"]

\* res.data.choices?.[0]?.message?.content        (groq, openai, deepseek)
\* res.data.candidates?.[0]?.content?.parts?.[0]?.text || ''        (gemini)
Extract(branch, outcome) ==
  IF branch = "gemini"
    THEN (IF Truthy(outcome.content) THEN outcome.content ELSE Str(""))
    ELSE outcome.content

Return(value) == [thrown |-> FALSE, err |-> NoErr, value |-> value]
Throw(err)    == [thrown |-> TRUE, err |-> err, value |-> Undefined]
NoCompletion  == [thrown |-> FALSE, err |-> NoErr, value |-> Undefined]

\* Variant: the catch block returns '' instead of rethrowing.
SettleSwallow(branch, outcome) ==
  IF outcome.kind = "network" THEN Return(Str(""))
  ELSE IF outcome.kind = "status" THEN Return(Str(""))
  ELSE IF outcome.shape = "null" THEN Return(Str(""))
  ELSE Return(Extract(branch, outcome))

\* How callAI ends once the awaited axios.post has settled: the catch block
\* logs and rethrows whatever the try block raised.
Settle(branch, outcome) ==
  IF outcome.kind = "network" THEN Throw(NetworkErr)
  ELSE IF outcome.kind = "status" THEN Throw(StatusErr(outcome.payload))
  ELSE IF outcome.shape = "null" THEN Throw(TypeErr)
  ELSE Return(Extract(branch, outcome))

\* console.error(..., err?.response?.data || err)
LogArg(err) == IF Truthy(err.data) THEN ToStr(err.data) ELSE err.message

\* The catch block of a branch: openai logs err itself, the others the payload.
CallAILog(branch, err) ==
  [at |-> "callAI " \o branch, what |-> IF branch = "openai" THEN err.message ELSE LogArg(err)]

(***************************************************************************)
(* The two request handlers  (server.ts:139-169)                           *)
(***************************************************************************)
\* An object of the proposal's three fields, as McpClient sends it.
Obj(title, content, created) ==
  [k |-> "object", v |-> "", title |-> title, content |-> content, created_at |-> created]

\* JSON.stringify of a proposal: the keys in insertion order; undefined stays
\* undefined (and prints as "undefined" inside the template literal).
JSONstringify(x) ==
  IF x.k = "object"
    THEN "{\"title\":\"" \o x.title \o "\",\"content\":\"" \o x.content
           \o "\",\"created_at\":\"" \o x.created_at \o "\"}"
    ELSE x.k

\* server.ts:144-145
EnhanceSystemPrompt ==
  Str("Enhance this business proposal text to be more professional and compelling. Keep the original meaning but improve clarity and impact.")

\* server.ts:161
GenerateSystemPrompt(proposal) ==
  Str("Generate a professional HTML template for a business proposal. Use this JSON data: "
        \o JSONstringify(proposal))

\* Variant: the provider named in the body is ignored.
ResolveProviderAlwaysDefault(given, default) == default

\* const { text, provider = defaultProvider } = req.body
\* (a destructuring default replaces undefined only)
ResolveProvider(given, default) == IF given = Undefined THEN default ELSE given

ResultKey(endpoint) == IF endpoint = "text-enhancement" THEN "enhancedText" ELSE "html"

FailureText(endpoint) ==
  IF endpoint = "text-enhancement" THEN "Failed to enhance text" ELSE "Failed to generate HTML"

\* res.json(obj): JSON.stringify leaves out a key whose value is undefined.
JsonBody(success, key, val) ==
  IF val = Undefined
    THEN [success |-> success, key |-> "", val |-> Undefined]
    ELSE [success |-> success, key |-> key, val |-> val]

\* Variant: the catch block answers with an empty success instead of a failure.
RespondSuppress(endpoint, completion) ==
  [status |-> 200, json |-> TRUE,
   body |-> JsonBody(TRUE, IF endpoint = "text-enhancement" THEN "enhancedText" ELSE "html",
                     IF completion.thrown THEN Str("") ELSE completion.value)]

\* Variant: the failure response carries the error the handler caught.
RespondLeaky(endpoint, completion) ==
  IF completion.thrown
    THEN [status |-> 500, json |-> TRUE,
          body |-> JsonBody(FALSE, "error",
                            Str(IF Truthy(completion.err.data)
                                  THEN ToStr(completion.err.data)
                                  ELSE completion.err.message))]
    ELSE [status |-> 200, json |-> TRUE,
          body |-> JsonBody(TRUE, IF endpoint = "text-enhancement" THEN "enhancedText"
                                  ELSE "html", completion.value)]

\* server.ts:148,151 and 164,167: the response a handler sends for a completion of callAI.
Respond(endpoint, completion) ==
  IF completion.thrown
    THEN [status |-> 500, json |-> TRUE,
          body |-> JsonBody(FALSE, "error", Str(FailureText(endpoint)))]
    ELSE [status |-> 200, json |-> TRUE,
          body |-> JsonBody(TRUE, ResultKey(endpoint), completion.value)]

\* server.ts:150,166   console.error(..., err?.response?.data || err)
HandlerLog(endpoint, err) == [at |-> "POST /mcp/" \o endpoint, what |-> LogArg(err)]

IdleGw ==
  [st |-> "idle", endpoint |-> "", body |-> [text |-> Undefined, proposal |-> Undefined,
                                                provider |-> Undefined],
   provider |-> Undefined, systemPrompt |-> Undefined, userPrompt |-> Undefined,
   branch |-> "", calls |-> <<>>, outcome |-> NoOutcome, completion |-> NoCompletion,
   log |-> <<>>, resp |-> <<>>]

\* callAI from its call to its first suspension: it has either issued the
\* vendor call of its branch and awaits it, or (no branch taken) has thrown.
CallAIStart(provider, systemPrompt, userPrompt) ==
  LET branch  == Branch(provider)
      started == [IdleGw EXCEPT !.provider = provider, !.systemPrompt = systemPrompt,
                                !.userPrompt = userPrompt, !.branch = branch]
  IN IF branch = "none"
       THEN [started EXCEPT !.st = "done", !.completion = Throw(UnsupportedErr)]
       ELSE [started EXCEPT !.st = "await",
                            !.calls = <<VendorRequest(branch, systemPrompt, userPrompt)>>]

\* callAI from the settling of its vendor call to its return or throw.
CallAIEnd(r, outcome) ==
  LET completion == Settle(r.branch, outcome)
  IN [r EXCEPT !.st = "done",
               !.outcome = outcome,
               !.completion = completion,
               !.log = IF completion.thrown
                         THEN r.log \o <<CallAILog(r.branch, completion.err)>>
                         ELSE r.log]

\* Variant: the text-enhancement handler replaces a missing text by '' before
\* it calls callAI (`text || ''`).
HandleTextOrEmpty(endpoint, body, default) ==
  LET provider     == ResolveProvider(body.provider, default)
      systemPrompt == IF endpoint = "text-enhancement"
                        THEN EnhanceSystemPrompt
                        ELSE GenerateSystemPrompt(body.proposal)
      userPrompt   == IF endpoint = "text-enhancement" /\ Truthy(body.text)
                        THEN body.text ELSE Str("")
      called       == CallAIStart(provider, systemPrompt, userPrompt)
      started      == [called EXCEPT !.endpoint = endpoint, !.body = body]
  IN IF called.st = "done"
       THEN [started EXCEPT !.log = <<HandlerLog(endpoint, called.completion.err)>>,
                            !.resp = <<Respond(endpoint, called.completion)>>]
       ELSE started

\* A handler from the arrival of the request to its first suspension: it either
\* awaits the vendor call callAI has issued, or (no branch taken) has answered.
Handle(endpoint, body, default) ==
  LET provider     == ResolveProvider(body.provider, default)
      systemPrompt == IF endpoint = "text-enhancement"
                        THEN EnhanceSystemPrompt
                        ELSE GenerateSystemPrompt(body.proposal)
      userPrompt   == IF endpoint = "text-enhancement" THEN body.text ELSE Str("")
      called       == CallAIStart(provider, systemPrompt, userPrompt)
      started      == [called EXCEPT !.endpoint = endpoint, !.body = body]
  IN IF called.st = "done"
       THEN [started EXCEPT !.log = <<HandlerLog(endpoint, called.completion.err)>>,
                            !.resp = <<Respond(endpoint, called.completion)>>]
       ELSE started

\* Variant: a failed vendor call is issued once more before the request fails.
ResumeRetry(r, outcome) ==
  LET completion == Settle(r.branch, outcome)
  IN IF completion.thrown /\ Len(r.calls) < 2
       THEN [r EXCEPT !.outcome = outcome,
                      !.calls = Append(r.calls,
                                       VendorRequest(r.branch, r.systemPrompt, r.userPrompt))]
       ELSE [r EXCEPT !.st = "done",
                      !.outcome = outcome,
                      !.completion = completion,
                      !.log = IF completion.thrown
                                THEN r.log \o <<CallAILog(r.branch, completion.err),
                                                HandlerLog(r.endpoint, completion.err)>>
                                ELSE r.log,
                      !.resp = r.resp \o <<Respond(r.endpoint, completion)>>]

\* Variant: the branch is kept in one place for the whole process, where the
\* first slot's request has written it, instead of in the call's own frame.
ResumeShared(r, outcome) ==
  LET ended == CallAIEnd([r EXCEPT !.branch = gw[1].branch], outcome)
  IN [ended EXCEPT !.log = IF ended.completion.thrown
                             THEN ended.log \o <<HandlerLog(r.endpoint, ended.completion.err)>>
                             ELSE ended.log,
                   !.resp = r.resp \o <<Respond(r.endpoint, ended.completion)>>]

\* The rest of the handler, run when the awaited vendor call settles.
Resume(r, outcome) ==
  LET ended == CallAIEnd(r, outcome)
  IN [ended EXCEPT !.log = IF ended.completion.thrown
                             THEN ended.log \o <<HandlerLog(r.endpoint, ended.completion.err)>>
                             ELSE ended.log,
                   !.resp = r.resp \o <<Respond(r.endpoint, ended.completion)>>]

(***************************************************************************)
(* Requests sent straight to the gateway                                   *)
(***************************************************************************)
\* The provider field of a request body.
ProviderFields == {Undefined, Null, Str("groq"), Str("gemini"), Str("Groq")}

TextBodies ==
  { [text |-> Str("We build apps"), proposal |-> Undefined, provider |-> p] :
      p \in ProviderFields }

HtmlBodies ==
  { [text |-> Undefined,
     proposal |-> Obj("Web Proposal", "We build high-quality applications.", "2024-01-01"),
     provider |-> p] : p \in ProviderFields }

(***************************************************************************)
(* McpClient  (McpClient.php)                                              *)
(***************************************************************************)
\* PHP's `a ?? b`
NullCoalesce(a, b) == IF a = Null THEN b ELSE a

\* McpClient.php:20-23 and 32-35: the bodies of the two Http::post calls.
EnhanceTextBody(text, provider, default) ==
  [text |-> text, proposal |-> Undefined, provider |-> NullCoalesce(provider, default)]

GenerateHtmlBody(proposalData, provider, default) ==
  [text |-> Undefined, proposal |-> proposalData, provider |-> NullCoalesce(provider, default)]

\* What Http::post gives McpClient for the gateway's answer `sent`:
\*   "intact"   the gateway's response as sent;
\*   "nonjson"  a body that is not JSON (an intermediary's error page);
\*   "reset"    no response at all: Http::post raises ConnectionException.
Deliveries == {"intact", "nonjson", "reset"}

NonJsonResponse == [status |-> 502, json |-> FALSE, body |-> JsonBody(FALSE, "", Undefined)]
NoResponse      == [status |-> 0, json |-> FALSE, body |-> JsonBody(FALSE, "", Undefined)]

Received(sent, delivery) == IF delivery = "intact" THEN sent ELSE NonJsonResponse

\* $response->json($key): the decoded body's value at $key, null when the body
\* is not JSON or has no such key (a JSON null is PHP's null as well).
PhpJson(response, key) ==
  IF response.json /\ response.body.key = key THEN response.body.val ELSE Null

\* McpClient.php:27
EnhanceTextReturn(response, text) == NullCoalesce(PhpJson(response, "enhancedText"), text)

\* McpClient.php:37
GenerateHtmlReturn(response) == NullCoalesce(PhpJson(response, "html"), Str(""))

\* One call of McpClient as its caller sees it.
NoCall == [method |-> "", arg |-> Undefined, provider |-> Null, http |-> "",
           response |-> NoResponse, raised |-> "", returned |-> Null]

(***************************************************************************)
(* BusinessProposalController  (BusinessProposalController.php)            *)
(***************************************************************************)
\* 'required|string': present, a string, and not empty.
Required(x) == IsString(x) /\ x.v # ""

\* BusinessProposalController.php:19-22
Validates(input) == Required(input.text) /\ Required(input.title)

\* The date a record is created on (time is not modelled).
Today == "2024-01-01"

\* BusinessProposalController.php:27-32, with the id the table assigns.
NewProposal(table, title, text, enhancedText) ==
  [id |-> Len(table) + 1, title |-> title, original_text |-> text,
   enhanced_text |-> enhancedText, status |-> "draft", created_at |-> Today]

\* BusinessProposalController.php:41-45
ProposalData(proposal) ==
  Obj(proposal.title.v, proposal.enhanced_text.v, proposal.created_at)

IdleApp ==
  [st |-> "idle", op |-> "", input |-> [title |-> Undefined, text |-> Undefined,
                                        provider |-> Undefined],
   id |-> 0, mcp |-> NoCall, status |-> 0, body |-> Undefined, persisted |-> {}]

\* Variant: the controller hands the request's provider field to McpClient.
CreateStartForwardsProvider(input, connected) ==
  LET begun == [IdleApp EXCEPT !.op = "create", !.input = input]
      call  == [NoCall EXCEPT !.method = "enhanceText", !.arg = input.text,
                              !.provider = IF input.provider = Undefined
                                             THEN Null ELSE input.provider]
  IN IF ~Validates(input)
       THEN [begun EXCEPT !.st = "done", !.status = 422]
     ELSE IF ~connected
       THEN [begun EXCEPT !.st = "done", !.status = 500,
                          !.mcp = [call EXCEPT !.http = "reset",
                                               !.raised = "ConnectionException"]]
     ELSE [begun EXCEPT !.st = "waiting", !.mcp = call]

\* createBusinessProposal up to the point where Http::post waits for the gateway.
\* connected: whether the gateway can be reached at all.
CreateStart(input, connected) ==
  LET begun == [IdleApp EXCEPT !.op = "create", !.input = input]
      call  == [NoCall EXCEPT !.method = "enhanceText", !.arg = input.text,
                              !.provider = Null]
  IN IF ~Validates(input)
       THEN [begun EXCEPT !.st = "done", !.status = 422]
     ELSE IF ~connected
       THEN [begun EXCEPT !.st = "done", !.status = 500,
                          !.mcp = [call EXCEPT !.http = "reset",
                                               !.raised = "ConnectionException"]]
     ELSE [begun EXCEPT !.st = "waiting", !.mcp = call]

\* createBusinessProposal from the return of Http::post to the response.
CreateFinish(a, sent, delivery, table) ==
  IF delivery = "reset"
    THEN [a EXCEPT !.st = "done", !.status = 500,
                   !.mcp = [a.mcp EXCEPT !.http = "reset", !.raised = "ConnectionException"]]
    ELSE LET response == Received(sent, delivery)
             enhanced == EnhanceTextReturn(response, a.input.text)
         IN [a EXCEPT !.st = "done", !.status = 201,
                      !.mcp = [a.mcp EXCEPT !.http = delivery, !.response = response,
                                            !.returned = enhanced],
                      !.body = enhanced,
                      !.persisted = {Len(table) + 1}]

\* Variant: the record is created before enhanceText is called, so it is
\* there whether or not the call raises.
CreateStoreFirst(a, sent, delivery, table) ==
  Append(table, NewProposal(table, a.input.title, a.input.text,
                            IF delivery = "reset"
                              THEN a.input.text
                              ELSE EnhanceTextReturn(Received(sent, delivery), a.input.text)))

\* The table after createBusinessProposal has finished.
CreateStore(a, sent, delivery, table) ==
  IF delivery = "reset"
    THEN table
    ELSE Append(table, NewProposal(table, a.input.title, a.input.text,
                                   EnhanceTextReturn(Received(sent, delivery), a.input.text)))

\* BusinessProposal::findOrFail($id)
Found(table, id) == id \in 1 .. Len(table)

\* Variant: the proposal is looked up with find(), which does not fail.
ShowStartNoCheck(id, table, connected) ==
  LET begun == [IdleApp EXCEPT !.op = "preview", !.id = id]
      call  == [NoCall EXCEPT !.method = "generateHtml",
                              !.arg = IF Found(table, id) THEN ProposalData(table[id])
                                      ELSE Undefined,
                              !.provider = Null]
  IN IF ~connected
       THEN [begun EXCEPT !.st = "done", !.status = 500,
                          !.mcp = [call EXCEPT !.http = "reset",
                                               !.raised = "ConnectionException"]]
       ELSE [begun EXCEPT !.st = "waiting", !.mcp = call]

\* showBusinessProposal up to the point where Http::post waits for the gateway.
ShowStart(id, table, connected) ==
  LET begun == [IdleApp EXCEPT !.op = "preview", !.id = id]
      call  == [NoCall EXCEPT !.method = "generateHtml",
                              !.arg = IF Found(table, id) THEN ProposalData(table[id])
                                      ELSE Undefined,
                              !.provider = Null]
  IN IF ~Found(table, id)
       THEN [begun EXCEPT !.st = "done", !.status = 404]
     ELSE IF ~connected
       THEN [begun EXCEPT !.st = "done", !.status = 500,
                          !.mcp = [call EXCEPT !.http = "reset",
                                               !.raised = "ConnectionException"]]
     ELSE [begun EXCEPT !.st = "waiting", !.mcp = call]

\* showBusinessProposal from the return of Http::post to the response.
ShowFinish(a, sent, delivery) ==
  IF delivery = "reset"
    THEN [a EXCEPT !.st = "done", !.status = 500,
                   !.mcp = [a.mcp EXCEPT !.http = "reset", !.raised = "ConnectionException"]]
    ELSE LET response == Received(sent, delivery)
             html     == GenerateHtmlReturn(response)
         IN [a EXCEPT !.st = "done", !.status = 200,
                      !.mcp = [a.mcp EXCEPT !.http = delivery, !.response = response,
                                            !.returned = html],
                      !.body = html]

(***************************************************************************)
(* The BusinessProposal component  (BusinessProposal.tsx)                  *)
(***************************************************************************)
\* BusinessProposal.tsx:5-12: the state after the first render. pc is the
\* handler that is suspended at its `await` ("idle": none); caught is the
\* handler whose catch block ran when the last handler ended ("": none).
IdleUi ==
  [formData |-> [title |-> Str("Proposal for a web site development"),
                 text |-> Str("Create me a business proposal for a web site development like Temu. Include about a matching tech stack as well."),
                 provider |-> Str("groq")],
   proposal |-> Null, htmlPreview |-> Str(""), loading |-> FALSE, pc |-> "idle",
   caught |-> ""]

\* What an axios call settles with: it resolves with the response's data for
\* a 2xx status and rejects otherwise (status 0: no response at all).
Resolved(data) == [ok |-> TRUE, data |-> data]
Rejected       == [ok |-> FALSE, data |-> Undefined]
AxiosSettles(status, data) ==
  IF status >= 200 /\ status < 300 THEN Resolved(data) ELSE Rejected

\* The buttons of lines 90 and 95-97: rendered, and not disabled.
SubmitEnabled(u)  == ~u.loading
PreviewEnabled(u) == u.proposal # Null /\ ~u.loading

\* handleSubmit up to its await (lines 15-26).
HandleSubmitBegin(u) == [u EXCEPT !.loading = TRUE, !.pc = "submit"]

\* Variant: setLoading(false) follows setProposal inside the try block, with
\* no finally.
HandleSubmitNoFinally(u, result) ==
  IF result.ok
    THEN [u EXCEPT !.proposal = result.data, !.loading = FALSE, !.pc = "idle",
                   !.caught = ""]
    ELSE [u EXCEPT !.pc = "idle", !.caught = "submit"]

\* handleSubmit from the settling of axios.post to its end (lines 27-32).
HandleSubmitSettled(u, result) ==
  [u EXCEPT !.proposal = IF result.ok THEN result.data ELSE @,
            !.caught = IF result.ok THEN "" ELSE "submit",
            !.loading = FALSE, !.pc = "idle"]

\* handlePreview up to its await, or to its early return (lines 36-43).
HandlePreviewBegin(u) ==
  IF u.proposal = Null THEN u ELSE [u EXCEPT !.loading = TRUE, !.pc = "preview"]

\* handlePreview from the settling of axios.get to its end (lines 44-49).
HandlePreviewSettled(u, result) ==
  [u EXCEPT !.htmlPreview = IF result.ok THEN result.data ELSE @,
            !.caught = IF result.ok THEN "" ELSE "preview",
            !.loading = FALSE, !.pc = "idle"]

\* The API keys of server.ts:43,71,99,119.
AllCredentials == {"GROQ_API_KEY", "CHATGPT_API_KEY", "DEEPSEEK_API_KEY", "GEMINI_API_KEY"}

Init ==
  /\ defaultProvider \in {DefaultProviderOf(e) : e \in EnvProviders}
  /\ mcpDefault = Str("groq")
  /\ gw = [i \in Slots |-> IdleGw]
  /\ app = [i \in Slots |-> IdleApp]
  /\ db = <<>>
  /\ credentials = AllCredentials
  /\ listening = TRUE
  /\ ui = IdleUi

\* POST /mcp/text-enhancement
PostTextEnhancement(i, body) ==
  /\ listening
  /\ gw[i].st = "idle"
  /\ gw' = [gw EXCEPT ![i] = Handle("text-enhancement", body, defaultProvider)]
  /\ UNCHANGED <<ui, credentials, listening, defaultProvider, mcpDefault, app, db>>

\* POST /mcp/generate-html
PostGenerateHtml(i, body) ==
  /\ listening
  /\ gw[i].st = "idle"
  /\ gw' = [gw EXCEPT ![i] = Handle("generate-html", body, defaultProvider)]
  /\ UNCHANGED <<ui, credentials, listening, defaultProvider, mcpDefault, app, db>>

\* The vendor call of request i settles and the handler runs to its response.
VendorAnswers(i, outcome) ==
  /\ gw[i].st = "await"
  /\ gw' = [gw EXCEPT ![i] = Resume(gw[i], outcome)]
  /\ UNCHANGED <<ui, credentials, listening, defaultProvider, mcpDefault, app, db>>

Next ==
  \E i \in Slots :
    \/ \E body \in TextBodies : PostTextEnhancement(i, body)
    \/ \E body \in HtmlBodies : PostGenerateHtml(i, body)
    \/ \E outcome \in Outcomes : VendorAnswers(i, outcome)

Spec == Init /\ [][Next]_vars

(***************************************************************************)
(* Requests to the Laravel application                                     *)
(***************************************************************************)
\* Values of services.mcp.provider.
McpProviders ==
  {Str("groq"), Str("openai"), Str("deepseek"), Str("gemini"), Str("unknown-vendor")}

\* Bodies of POST /api/business-proposals, as the front end or any client sends them.
CreateInputs ==
  { [title |-> t, text |-> x, provider |-> Str("openai")] :
      t \in {Str("Web Proposal"), Undefined}, x \in {Str("We build apps"), Undefined} }

\* Vendor answers in the application's runs.
AppOutcomes ==
  { Network, Status("quota exceeded"),
    Ok(Str("We build high-quality applications.")), Ok(Undefined), OkNullBody }

InitApp ==
  /\ defaultProvider \in {DefaultProviderOf(e) : e \in {Undefined, Str("unknown-vendor")}}
  /\ mcpDefault \in McpProviders
  /\ gw = [i \in Slots |-> IdleGw]
  /\ app = [i \in Slots |-> IdleApp]
  /\ db = <<>>
  /\ credentials = AllCredentials
  /\ listening = TRUE
  /\ ui = IdleUi

\* POST /api/business-proposals
CreateBusinessProposal(i, input, connected) ==
  /\ app[i].st = "idle"
  /\ app' = [app EXCEPT ![i] = CreateStart(input, connected)]
  /\ gw' = IF app'[i].st = "waiting"
             THEN [gw EXCEPT ![i] = Handle("text-enhancement",
                                           EnhanceTextBody(app'[i].mcp.arg, app'[i].mcp.provider,
                                                           mcpDefault),
                                           defaultProvider)]
             ELSE gw
  /\ UNCHANGED <<ui, credentials, listening, defaultProvider, mcpDefault, db>>

\* GET /api/business-proposals/{id}/preview
ShowBusinessProposal(i, id, connected) ==
  /\ app[i].st = "idle"
  /\ app' = [app EXCEPT ![i] = ShowStart(id, db, connected)]
  /\ gw' = IF app'[i].st = "waiting"
             THEN [gw EXCEPT ![i] = Handle("generate-html",
                                           GenerateHtmlBody(app'[i].mcp.arg, app'[i].mcp.provider,
                                                            mcpDefault),
                                           defaultProvider)]
             ELSE gw
  /\ UNCHANGED <<ui, credentials, listening, defaultProvider, mcpDefault, db>>

\* Http::post returns (or raises) and createBusinessProposal runs to its response.
CreateReturns(i, delivery) ==
  /\ app[i].st = "waiting" /\ app[i].op = "create"
  /\ gw[i].st = "done"
  /\ app' = [app EXCEPT ![i] = CreateFinish(app[i], gw[i].resp[1], delivery, db)]
  /\ db' = CreateStore(app[i], gw[i].resp[1], delivery, db)
  /\ UNCHANGED <<ui, credentials, listening, defaultProvider, mcpDefault, gw>>

\* Http::post returns (or raises) and showBusinessProposal runs to its response.
ShowReturns(i, delivery) ==
  /\ app[i].st = "waiting" /\ app[i].op = "preview"
  /\ gw[i].st = "done"
  /\ app' = [app EXCEPT ![i] = ShowFinish(app[i], gw[i].resp[1], delivery)]
  /\ UNCHANGED <<ui, credentials, listening, defaultProvider, mcpDefault, gw, db>>

NextApp ==
  \E i \in Slots :
    \/ \E input \in CreateInputs, c \in BOOLEAN : CreateBusinessProposal(i, input, c)
    \/ \E id \in Slots, c \in BOOLEAN : ShowBusinessProposal(i, id, c)
    \/ \E outcome \in AppOutcomes : VendorAnswers(i, outcome)
    \/ \E d \in Deliveries : CreateReturns(i, d)
    \/ \E d \in Deliveries : ShowReturns(i, d)

SpecApp == InitApp /\ [][NextApp]_vars

(***************************************************************************)
(* Requests made by the front end  (BusinessProposal.tsx)                  *)
(***************************************************************************)
\* The options of the form's provider select.
FormProviders == {Str("groq"), Str("openai"), Str("deepseek"), Str("gemini")}

\* handleSubmit's request body: the form's fields.
FormInputs ==
  { [title |-> Str("Web Proposal"), text |-> Str("We build apps"), provider |-> p] :
      p \in FormProviders }

FrontOutcomes == { Status("quota exceeded"), Ok(Str("We build high-quality applications.")) }

InitFront ==
  /\ defaultProvider = DefaultProviderOf(Str("deepseek"))
  /\ mcpDefault \in {Str("groq"), Str("deepseek")}
  /\ gw = [i \in Slots |-> IdleGw]
  /\ app = [i \in Slots |-> IdleApp]
  /\ db = <<>>
  /\ credentials = AllCredentials
  /\ listening = TRUE
  /\ ui = IdleUi

\* handlePreview: GET /api/business-proposals/{id}/preview?provider=..., for a
\* proposal the front end has received from a create; the query's provider is
\* kept in the request's input.
HandlePreview(i, id, provider, connected) ==
  /\ app[i].st = "idle"
  /\ id \in 1 .. Len(db)
  /\ app' = [app EXCEPT ![i] = [ShowStart(id, db, connected)
                                  EXCEPT !.input.provider = provider]]
  /\ gw' = IF app'[i].st = "waiting"
             THEN [gw EXCEPT ![i] = Handle("generate-html",
                                           GenerateHtmlBody(app'[i].mcp.arg, app'[i].mcp.provider,
                                                            mcpDefault),
                                           defaultProvider)]
             ELSE gw
  /\ UNCHANGED <<ui, credentials, listening, defaultProvider, mcpDefault, db>>

NextFront ==
  \E i \in Slots :
    \/ \E input \in FormInputs, c \in BOOLEAN : CreateBusinessProposal(i, input, c)
    \/ \E id \in Slots, p \in FormProviders, c \in BOOLEAN : HandlePreview(i, id, p, c)
    \/ \E outcome \in FrontOutcomes : VendorAnswers(i, outcome)
    \/ \E d \in {"intact", "reset"} : CreateReturns(i, d)
    \/ \E d \in {"intact", "reset"} : ShowReturns(i, d)

SpecFront == InitFront /\ [][NextFront]_vars

(***************************************************************************)
(* The component in front of the application                               *)
(***************************************************************************)
\* The slot that holds the component's request while it is in flight.
UiSlot == CHOOSE i \in Slots : \A j \in Slots : i <= j

UiOutcomes == { Status("quota exceeded"), Ok(Str("We build high-quality applications.")) }

InitUi ==
  /\ defaultProvider = Str("groq")
  /\ mcpDefault = Str("groq")
  /\ gw = [i \in Slots |-> IdleGw]
  /\ app = [i \in Slots |-> IdleApp]
  /\ db = <<>>
  /\ credentials = AllCredentials
  /\ listening = TRUE
  /\ ui = IdleUi

\* The provider select's onChange (line 81).
ChangeProvider(p) ==
  /\ p # ui.formData.provider
  /\ ui' = [ui EXCEPT !.formData.provider = p]
  /\ UNCHANGED <<defaultProvider, mcpDefault, gw, app, db, credentials, listening>>

\* The form is submitted: handleSubmit runs to its await. reached: whether
\* the request arrives at the application at all.
SubmitForm(reached, connected) ==
  /\ SubmitEnabled(ui)
  /\ Len(db) < MaxReq
  /\ ui' = HandleSubmitBegin(ui)
  /\ app' = IF reached
              THEN [app EXCEPT ![UiSlot] = CreateStart(ui.formData, connected)]
              ELSE app
  /\ gw' = IF app'[UiSlot].st = "waiting"
             THEN [gw EXCEPT ![UiSlot] =
                     Handle("text-enhancement",
                            EnhanceTextBody(app'[UiSlot].mcp.arg, app'[UiSlot].mcp.provider,
                                            mcpDefault),
                            defaultProvider)]
             ELSE gw
  /\ UNCHANGED <<defaultProvider, mcpDefault, db, credentials, listening>>

\* The preview button is clicked: handlePreview runs to its await.
ClickPreview(reached, connected) ==
  /\ PreviewEnabled(ui)
  /\ ui' = HandlePreviewBegin(ui)
  /\ app' = IF reached /\ ui'.pc = "preview"
              THEN [app EXCEPT ![UiSlot] =
                      [ShowStart(ui.proposal.id, db, connected)
                         EXCEPT !.input.provider = ui.formData.provider]]
              ELSE app
  /\ gw' = IF app'[UiSlot].st = "waiting"
             THEN [gw EXCEPT ![UiSlot] =
                     Handle("generate-html",
                            GenerateHtmlBody(app'[UiSlot].mcp.arg, app'[UiSlot].mcp.provider,
                                             mcpDefault),
                            defaultProvider)]
             ELSE gw
  /\ UNCHANGED <<defaultProvider, mcpDefault, db, credentials, listening>>

\* The status axios sees: the application's, or 0 when the request or its
\* response was lost on the way.
SeenStatus(a, delivered) == IF a.st = "done" /\ delivered THEN a.status ELSE 0

\* axios.post settles and handleSubmit runs to its end; response.data is the
\* record the controller has created (BusinessProposalController.php:34).
SubmitSettles(delivered) ==
  /\ ui.pc = "submit"
  /\ app[UiSlot].st \in {"idle", "done"}
  /\ LET status == SeenStatus(app[UiSlot], delivered)
         data   == IF app[UiSlot].persisted # {}
                     THEN db[CHOOSE n \in app[UiSlot].persisted : TRUE]
                     ELSE Undefined
     IN ui' = HandleSubmitSettled(ui, AxiosSettles(status, data))
  /\ app' = [app EXCEPT ![UiSlot] = IdleApp]
  /\ gw' = [gw EXCEPT ![UiSlot] = IdleGw]
  /\ UNCHANGED <<defaultProvider, mcpDefault, db, credentials, listening>>

\* axios.get settles and handlePreview runs to its end; response.data is the
\* HTML the controller answers with (BusinessProposalController.php:47).
PreviewSettles(delivered) ==
  /\ ui.pc = "preview"
  /\ app[UiSlot].st \in {"idle", "done"}
  /\ LET status == SeenStatus(app[UiSlot], delivered)
     IN ui' = HandlePreviewSettled(ui, AxiosSettles(status, app[UiSlot].body))
  /\ app' = [app EXCEPT ![UiSlot] = IdleApp]
  /\ gw' = [gw EXCEPT ![UiSlot] = IdleGw]
  /\ UNCHANGED <<defaultProvider, mcpDefault, db, credentials, listening>>

\* The steps that bring a request in flight to its end.
UiServed ==
  \/ \E outcome \in UiOutcomes : VendorAnswers(UiSlot, outcome)
  \/ \E d \in {"intact", "reset"} : CreateReturns(UiSlot, d)
  \/ \E d \in {"intact", "reset"} : ShowReturns(UiSlot, d)
  \/ \E delivered \in BOOLEAN : SubmitSettles(delivered)
  \/ \E delivered \in BOOLEAN : PreviewSettles(delivered)

NextUi ==
  \/ \E p \in FormProviders : ChangeProvider(p)
  \/ \E r, c \in BOOLEAN : SubmitForm(r, c)
  \/ \E r, c \in BOOLEAN : ClickPreview(r, c)
  \/ UiServed

\* Every request the component makes gets an answer or fails: the promise of
\* axios settles.
SpecUi == InitUi /\ [][NextUi]_vars /\ WF_vars(UiServed)

(***************************************************************************)
(* The gateway from the start of its process                               *)
(***************************************************************************)
\* The sets of API keys the environment sets in this model.
CredentialSets ==
  { AllCredentials, {}, {"GROQ_API_KEY"}, AllCredentials \ {"GROQ_API_KEY"} }

\* Request bodies whose text is a string, empty, or absent.
StartTextBodies ==
  { [text |-> t, proposal |-> Undefined, provider |-> p] :
      t \in {Str("We build apps"), Str(""), Undefined}, p \in {Undefined, Str("gemini")} }

StartHtmlBodies ==
  { [text |-> Undefined,
     proposal |-> Obj("Web Proposal", "We build high-quality applications.", "2024-01-01"),
     provider |-> p] : p \in {Undefined, Str("gemini")} }

StartOutcomes == { Status("invalid api key"), Ok(Str("We build high-quality applications.")) }

\* server.ts:6-12: the environment is read; nothing is listening yet.
InitStart ==
  /\ defaultProvider \in {DefaultProviderOf(e) : e \in {Undefined, Str("gemini")}}
  /\ mcpDefault = Str("groq")
  /\ gw = [i \in Slots |-> IdleGw]
  /\ app = [i \in Slots |-> IdleApp]
  /\ db = <<>>
  /\ credentials \in CredentialSets
  /\ listening = FALSE
  /\ ui = IdleUi

\* server.ts:171-173   app.listen(PORT, ...)
Listen ==
  /\ ~listening
  /\ listening' = TRUE
  /\ UNCHANGED <<ui, defaultProvider, mcpDefault, gw, app, db, credentials>>

NextStart ==
  \/ Listen
  \/ \E i \in Slots :
       \/ \E body \in StartTextBodies : PostTextEnhancement(i, body)
       \/ \E body \in StartHtmlBodies : PostGenerateHtml(i, body)
       \/ \E outcome \in StartOutcomes : VendorAnswers(i, outcome)

SpecStart == InitStart /\ [][NextStart]_vars

(***************************************************************************)
(* callAI called with any provider and any pair of prompts                 *)
(***************************************************************************)
CallProviders ==
  { Str("groq"), Str("openai"), Str("deepseek"), Str("gemini"), Str("Groq"), Str(" groq ") }

CallSystemPrompts == { Str(""), Str("Be brief.") }

CallUserPrompts == { Str(""), Str("Hello") }

CallOutcomes == { Network, Ok(Str("Hi")) }

InitCallAI ==
  /\ defaultProvider = Str("groq")
  /\ mcpDefault = Str("groq")
  /\ gw = [i \in Slots |-> IdleGw]
  /\ app = [i \in Slots |-> IdleApp]
  /\ db = <<>>
  /\ credentials = AllCredentials
  /\ listening = TRUE
  /\ ui = IdleUi

\* callAI(provider, systemPrompt, userPrompt)
CallAI(i, provider, systemPrompt, userPrompt) ==
  /\ gw[i].st = "idle"
  /\ gw' = [gw EXCEPT ![i] = CallAIStart(provider, systemPrompt, userPrompt)]
  /\ UNCHANGED <<ui, defaultProvider, mcpDefault, app, db, credentials, listening>>

\* The vendor call of callAI settles and callAI returns or throws.
CallAISettles(i, outcome) ==
  /\ gw[i].st = "await"
  /\ gw' = [gw EXCEPT ![i] = CallAIEnd(gw[i], outcome)]
  /\ UNCHANGED <<ui, defaultProvider, mcpDefault, app, db, credentials, listening>>

NextCallAI ==
  \E i \in Slots :
    \/ \E p \in CallProviders, sp \in CallSystemPrompts, up \in CallUserPrompts :
         CallAI(i, p, sp, up)
    \/ \E outcome \in CallOutcomes : CallAISettles(i, outcome)

SpecCallAI == InitCallAI /\ [][NextCallAI]_vars

(***************************************************************************)
(* Properties of the gateway  (checked under Spec)                         *)
(***************************************************************************)
KnownProvider(p) == IsString(p) /\ p.v \in Providers

Handled(i) == gw[i].st # "idle"
Done(i)    == gw[i].st = "done"

FailureShape(response, endpoint) ==
  /\ response.status = 500
  /\ response.body = [success |-> FALSE, key |-> "error", val |-> Str(FailureText(endpoint))]

\* C1: a request whose provider identifier is none of 'groq', 'openai',
\* 'deepseek', 'gemini' fails in callAI with the 'Unsupported provider' error,
\* and no vendor HTTP call is issued for it.
C1_UnsupportedBeforeNetwork ==
  \A i \in Slots :
    (Handled(i) /\ ~KnownProvider(gw[i].provider))
      => /\ Done(i)
         /\ gw[i].completion.thrown
         /\ gw[i].completion.err.message = "Unsupported provider"
         /\ Len(gw[i].calls) = 0

C1_Witness ==
  \E i \in Slots :
    /\ Done(i) /\ ~KnownProvider(gw[i].provider)
    /\ gw[i].completion.err = UnsupportedErr
    /\ gw[i].calls = <<>>

\* C6 (as claimed): every text-enhancement request gets exactly one response,
\* either 200 {success: true, enhancedText: s} with s a string equal to what
\* callAI extracted, or 500 {success: false, error: string}.
C6_EnhanceResponseShape ==
  \A i \in Slots :
    (Done(i) /\ gw[i].endpoint = "text-enhancement")
      => /\ Len(gw[i].resp) = 1
         /\ \/ /\ gw[i].resp[1].status = 200
               /\ gw[i].resp[1].body.success
               /\ gw[i].resp[1].body.key = "enhancedText"
               /\ IsString(gw[i].resp[1].body.val)
               /\ gw[i].resp[1].body.val = gw[i].completion.value
            \/ /\ gw[i].resp[1].status = 500
               /\ ~gw[i].resp[1].body.success
               /\ gw[i].resp[1].body.key = "error"
               /\ IsString(gw[i].resp[1].body.val)

\* C7: two failing requests to the same endpoint get the same response,
\* whatever the provider's error was: status 500, success false and the
\* endpoint's fixed error string; the provider's payload is in the log only.
C7_FailureResponseUniform ==
  \A i, j \in Slots :
    (Done(i) /\ Done(j) /\ gw[i].endpoint = gw[j].endpoint
       /\ gw[i].completion.thrown /\ gw[j].completion.thrown)
      => /\ gw[i].resp = gw[j].resp
         /\ Len(gw[i].resp) = 1
         /\ FailureShape(gw[i].resp[1], gw[i].endpoint)
         /\ \E n \in 1 .. Len(gw[i].log) : gw[i].log[n].what = LogArg(gw[i].completion.err)

C7_Witness ==
  \E i, j \in Slots :
    /\ Done(i) /\ Done(j) /\ gw[i].endpoint = gw[j].endpoint
    /\ gw[i].outcome.kind = "status" /\ gw[j].outcome.kind = "status"
    /\ gw[i].outcome.payload # gw[j].outcome.payload
    /\ gw[i].resp = gw[j].resp

C9_Original ==
  \A i \in Slots :
    Handled(i)
      => IF gw[i].body.provider \in {Undefined, Null}
           THEN gw[i].provider = defaultProvider
           ELSE gw[i].provider = gw[i].body.provider

\* C9 (amended): a request whose body has no provider field is dispatched to
\* the process-wide default provider; a provider field that is present, null
\* included, is used as given and never replaced by the default.
C9_DefaultOnlyWhenAbsent ==
  \A i \in Slots :
    Handled(i)
      => /\ gw[i].provider = IF gw[i].body.provider = Undefined
                               THEN defaultProvider
                               ELSE gw[i].body.provider
         /\ (Len(gw[i].calls) = 1 => Str(gw[i].calls[1].vendor) = gw[i].provider)
         /\ (KnownProvider(gw[i].provider) => Len(gw[i].calls) = 1)

C9_Witness ==
  \E i, j \in Slots :
    /\ Handled(i) /\ gw[i].body.provider = Undefined
    /\ Len(gw[i].calls) = 1 /\ Str(gw[i].calls[1].vendor) = defaultProvider
    /\ Handled(j) /\ KnownProvider(gw[j].body.provider)
    /\ gw[j].body.provider # defaultProvider
    /\ Len(gw[j].calls) = 1 /\ Str(gw[j].calls[1].vendor) = gw[j].body.provider

\* C10: a request issues one vendor HTTP call when its provider is known and
\* none when it is not, never more; once the call has failed the request has
\* its 500 response and no further call.
C10_SingleVendorCall ==
  \A i \in Slots :
    /\ Len(gw[i].calls) <= 1
    /\ Handled(i) => Len(gw[i].calls) = IF KnownProvider(gw[i].provider) THEN 1 ELSE 0
    /\ gw[i].outcome.kind \in {"network", "status"}
         => /\ Done(i)
            /\ Len(gw[i].resp) = 1
            /\ FailureShape(gw[i].resp[1], gw[i].endpoint)

C10_Witness ==
  \E i, j \in Slots :
    /\ Done(i) /\ gw[i].outcome.kind = "network" /\ Len(gw[i].calls) = 1
    /\ Done(j) /\ ~KnownProvider(gw[j].provider) /\ Len(gw[j].calls) = 0

\* C14 (as claimed): the text block sent to gemini is systemPrompt, a blank
\* line and userPrompt when both are non-empty, and has no separator when
\* either is empty (for generate-html it is exactly the systemPrompt).
C14_SinglePromptBlock ==
  \A i \in Slots :
    (Handled(i) /\ gw[i].branch = "gemini")
      => gw[i].calls[1].text =
           IF Truthy(gw[i].systemPrompt) /\ Truthy(gw[i].userPrompt)
             THEN Str(gw[i].systemPrompt.v \o "\n\n" \o gw[i].userPrompt.v)
           ELSE IF Truthy(gw[i].systemPrompt) THEN gw[i].systemPrompt
           ELSE gw[i].userPrompt

\* C17: under any interleaving the response to a request depends on its own
\* body and its own vendor answer only (two requests with the same endpoint,
\* body and answer get the same response), every step touches one request
\* only, and the default provider never changes.
C17_RequestsIndependent ==
  /\ [](\A i, j \in Slots :
          (Done(i) /\ Done(j) /\ gw[i].endpoint = gw[j].endpoint
             /\ gw[i].body = gw[j].body /\ gw[i].outcome = gw[j].outcome)
            => gw[i].resp = gw[j].resp)
  /\ [][/\ defaultProvider' = defaultProvider
        /\ \A i, j \in Slots : (i # j /\ gw'[i] # gw[i]) => gw'[j] = gw[j]]_vars

C17_Witness ==
  \E i, j \in Slots :
    /\ i # j /\ Done(i) /\ Done(j)
    /\ gw[i].endpoint = gw[j].endpoint /\ gw[i].body = gw[j].body
    /\ gw[i].branch = "gemini" /\ gw[i].outcome = Ok(Undefined)
    /\ gw[j].outcome = gw[i].outcome /\ gw[i].resp = gw[j].resp

\* C19 (as claimed): when the vendor answers 2xx with an object body that has
\* no content at the expected path (absent or null), gemini's branch returns
\* '' and the handler answers 200, whereas the groq, openai and deepseek
\* branches fail and the handler answers 500.
C19_AbsentContentByVendor ==
  \A i \in Slots :
    (Done(i) /\ gw[i].outcome \in {Ok(Undefined), Ok(Null)})
      => /\ gw[i].branch = "gemini"
              => /\ gw[i].completion = Return(Str(""))
                 /\ gw[i].resp[1].status = 200
         /\ gw[i].branch \in {"groq", "openai", "deepseek"}
              => /\ gw[i].completion.thrown
                 /\ FailureShape(gw[i].resp[1], gw[i].endpoint)

(***************************************************************************)
(* Properties of McpClient and the controller  (checked under SpecApp)     *)
(***************************************************************************)
Finished(i) == app[i].st = "done"

\* The underlying call of McpClient failed: no connection, a 500 answer, a
\* body that is not JSON, or an answer without the wanted field.
CallFailed(i, key) ==
  \/ app[i].mcp.http = "reset"
  \/ /\ app[i].mcp.http \in {"intact", "nonjson"}
     /\ \/ app[i].mcp.response.status = 500
        \/ ~app[i].mcp.response.json
        \/ app[i].mcp.response.body.key # key

\* C2 (as claimed): enhanceText returns its input text, and does not raise,
\* whenever the underlying call fails.
C2_EnhanceTextFallsBack ==
  \A i \in Slots :
    (Finished(i) /\ app[i].mcp.method = "enhanceText" /\ CallFailed(i, "enhancedText"))
      => /\ app[i].mcp.raised = ""
         /\ app[i].mcp.returned = app[i].mcp.arg

\* C3 (as claimed): generateHtml returns the empty string, and does not raise,
\* whenever the underlying call fails.
C3_GenerateHtmlFallsBack ==
  \A i \in Slots :
    (Finished(i) /\ app[i].mcp.method = "generateHtml" /\ CallFailed(i, "html"))
      => /\ app[i].mcp.raised = ""
         /\ app[i].mcp.returned = Str("")

\* The text of request i could not be enhanced: the call to the gateway or to
\* the provider failed, or the provider's answer held no usable text.
NotEnhanced(i) ==
  \/ CallFailed(i, "enhancedText")
  \/ /\ gw[i].st = "done"
     /\ \/ gw[i].completion.thrown
        \/ ~Truthy(gw[i].completion.value)

RecordsOf(i) == {n \in 1 .. Len(db) : n \in app[i].persisted}

\* C4 (as claimed): a valid create request whose text cannot be enhanced is
\* answered 201 and has stored exactly one record, with enhanced_text and
\* original_text equal to the submitted text and status 'draft'.
C4_CreateSurvivesFailure ==
  \A i \in Slots :
    (Finished(i) /\ app[i].op = "create" /\ Validates(app[i].input) /\ NotEnhanced(i))
      => /\ app[i].status = 201
         /\ Cardinality(RecordsOf(i)) = 1
         /\ \A n \in RecordsOf(i) :
              /\ db[n].enhanced_text = app[i].input.text
              /\ db[n].original_text = app[i].input.text
              /\ db[n].status = "draft"

\* C5 (as claimed): a preview of a stored proposal whose document generation
\* fails is answered with a success status and an empty HTML body.
C5_PreviewSurvivesFailure ==
  \A i \in Slots :
    (Finished(i) /\ app[i].op = "preview" /\ app[i].status # 404
       /\ (CallFailed(i, "html") \/ (gw[i].st = "done" /\ gw[i].completion.thrown)))
      => /\ app[i].status = 200
         /\ app[i].body = Str("")

\* C12: a preview request for an identifier with no stored proposal fails
\* with not-found (404), and no generate-document call reaches the gateway.
C12_NotFoundNoGatewayCall ==
  \A i \in Slots :
    /\ (app[i].op = "preview" /\ ~Found(db, app[i].id))
         => /\ Finished(i)
            /\ app[i].status = 404
    /\ (app[i].op = "preview" /\ app[i].status = 404)
         => /\ app[i].mcp.method = ""
            /\ gw[i] = IdleGw

C12_Witness ==
  \E i \in Slots :
    /\ Finished(i) /\ app[i].op = "preview" /\ ~Found(db, app[i].id)
    /\ app[i].status = 404 /\ gw[i] = IdleGw

\* C21: createBusinessProposal persists only after enhanceText has returned:
\* a request that fails validation makes no gateway call and stores nothing, a
\* request whose enhanceText call raises stores nothing, a request answered
\* 201 has stored exactly one record, with status 'draft' and original_text
\* equal to the submitted text; the table grows by one record, and only in the
\* step in which an enhanceText call returns without raising.
C21_PersistAfterEnhancement ==
  /\ [](/\ \A i \in Slots :
             app[i].op = "create" =>
               /\ ~Validates(app[i].input)
                    => /\ app[i].status = 422 /\ app[i].mcp.method = ""
                       /\ gw[i] = IdleGw /\ RecordsOf(i) = {}
               /\ ~Finished(i) => RecordsOf(i) = {}
               /\ app[i].mcp.raised # "" => (app[i].status = 500 /\ RecordsOf(i) = {})
               /\ app[i].status = 201
                    => /\ app[i].mcp.http \in {"intact", "nonjson"}
                       /\ Cardinality(RecordsOf(i)) = 1
                       /\ \A n \in RecordsOf(i) :
                            /\ db[n].status = "draft"
                            /\ db[n].original_text = app[i].input.text
        /\ Len(db) = Cardinality({i \in Slots : app[i].status = 201}))
  /\ [][db' # db =>
          /\ Len(db') = Len(db) + 1
          /\ \E i \in Slots :
               /\ app[i].op = "create" /\ app[i].st = "waiting" /\ gw[i].st = "done"
               /\ app'[i].st = "done" /\ app'[i].mcp.raised = ""]_vars

C21_Witness ==
  \E i, j \in Slots :
    /\ app[i].op = "create" /\ app[i].status = 201
    /\ RecordsOf(i) = {1} /\ db[1].status = "draft"
    /\ db[1].original_text = Str("We build apps")
    /\ app[j].op = "create" /\ Finished(j) /\ app[j].mcp.raised = "ConnectionException"
    /\ app[j].mcp.http = "reset" /\ gw[j].st = "done" /\ Len(db) = 1

\* C16: callAI raises for an unknown provider, a transport failure and a
\* non-2xx answer, and whenever it raises the handler answers with the 500
\* failure shape, never 200; the failure reaches McpClient as sent, and only
\* there is it replaced by a value.
C16_OnlyMcpClientDegrades ==
  \A i \in Slots :
    /\ (Handled(i) /\ ~KnownProvider(gw[i].provider)) => gw[i].completion.thrown
    /\ gw[i].outcome.kind \in {"network", "status"} => gw[i].completion.thrown
    /\ (Done(i) /\ gw[i].completion.thrown)
         => /\ Len(gw[i].resp) = 1
            /\ gw[i].resp[1].status = 500
            /\ ~gw[i].resp[1].body.success
    /\ (Finished(i) /\ gw[i].completion.thrown /\ app[i].mcp.http = "intact")
         => /\ app[i].mcp.response.status = 500
            /\ ~app[i].mcp.response.body.success
            /\ app[i].mcp.raised = ""
            /\ app[i].mcp.returned = IF app[i].op = "create" THEN app[i].input.text
                                     ELSE Str("")

C16_Witness ==
  \E i \in Slots :
    /\ Finished(i) /\ app[i].op = "create" /\ gw[i].outcome.kind = "status"
    /\ gw[i].completion.thrown /\ gw[i].resp[1].status = 500
    /\ app[i].mcp.http = "intact"
    /\ app[i].status = 201 /\ app[i].mcp.returned = app[i].input.text

(***************************************************************************)
(* Properties of the gateway's start and of its inputs (under SpecStart)   *)
(***************************************************************************)
\* The credential the default provider needs is not set.
DefaultCredentialMissing ==
  /\ KnownProvider(defaultProvider)
  /\ VendorCredential(defaultProvider.v) \notin credentials

\* C11 (as claimed): when the default provider's credential is missing the
\* gateway never listens and no vendor call is issued without its credential.
C11_FailsFastAtStartup ==
  /\ DefaultCredentialMissing => ~listening
  /\ \A i \in Slots :
       \A n \in 1 .. Len(gw[i].calls) : gw[i].calls[n].credential \in credentials

\* C18 as stated: in every call that reaches callAI the userPrompt is empty
\* only for generate-html, and text-enhancement never issues a vendor call with
\* an empty or absent user prompt.
C18_Original ==
  \A i \in Slots :
    Handled(i) =>
      /\ ~Truthy(gw[i].userPrompt) => gw[i].endpoint = "generate-html"
      /\ (gw[i].endpoint = "text-enhancement" /\ gw[i].calls # <<>>)
           => Truthy(gw[i].userPrompt)

\* C18 (amended): generate-html always calls callAI with the empty userPrompt;
\* text-enhancement calls it with the request's text field as it arrived, so
\* its userPrompt is empty (or absent) exactly when the request's text is.
C18_UserPromptIsRequestText ==
  \A i \in Slots :
    Handled(i) =>
      /\ gw[i].endpoint = "generate-html" => gw[i].userPrompt = Str("")
      /\ gw[i].endpoint = "text-enhancement" => gw[i].userPrompt = gw[i].body.text

C18_Witness ==
  \E i, j \in Slots :
    /\ Done(i) /\ gw[i].endpoint = "text-enhancement"
    /\ gw[i].body.text = Undefined /\ gw[i].userPrompt = Undefined
    /\ gw[i].calls # <<>> /\ gw[i].outcome.kind = "ok"
    /\ Done(j) /\ gw[j].endpoint = "generate-html" /\ gw[j].userPrompt = Str("")
    /\ gw[j].calls # <<>>

(***************************************************************************)
(* Properties of callAI  (checked under SpecCallAI)                        *)
(***************************************************************************)
ChatStyle == {"groq", "openai", "deepseek"}

\* C13: for groq, openai and deepseek the messages sent are a system message
\* with systemPrompt exactly when systemPrompt is not empty, followed by one
\* user message with userPrompt, which is last (also when userPrompt is empty).
C13_ChatMessageSequence ==
  \A i \in Slots :
    (Handled(i) /\ gw[i].branch \in ChatStyle)
      => LET m == gw[i].calls[1].messages
         IN /\ Len(m) = IF gw[i].systemPrompt.v # "" THEN 2 ELSE 1
            /\ m[Len(m)] = [role |-> "user", content |-> gw[i].userPrompt]
            /\ Len(m) = 2 => m[1] = [role |-> "system", content |-> gw[i].systemPrompt]

C13_Witness ==
  \E i, j \in Slots :
    /\ Handled(i) /\ gw[i].branch \in ChatStyle
    /\ gw[i].systemPrompt = Str("") /\ gw[i].userPrompt = Str("")
    /\ Len(gw[i].calls[1].messages) = 1
    /\ Handled(j) /\ gw[j].branch \in ChatStyle
    /\ gw[j].systemPrompt = Str("Be brief.") /\ Len(gw[j].calls[1].messages) = 2

\* C15: the vendor called is the one of the identifier given, matched exactly:
\* an identifier in another case or with surrounding spaces is unsupported and
\* calls no vendor, and after a vendor has failed no other vendor is called.
C15_ExactMatchNoRedirect ==
  \A i \in Slots :
    Handled(i)
      => /\ \A n \in 1 .. Len(gw[i].calls) :
              /\ Str(gw[i].calls[n].vendor) = gw[i].provider
              /\ gw[i].calls[n].url = VendorUrl(gw[i].provider.v)
         /\ KnownProvider(gw[i].provider) => Len(gw[i].calls) = 1
         /\ ~KnownProvider(gw[i].provider)
              => /\ gw[i].calls = <<>>
                 /\ gw[i].completion = Throw(UnsupportedErr)

C15_Witness ==
  \E i, j \in Slots :
    /\ Done(i) /\ gw[i].provider = Str("Groq") /\ gw[i].calls = <<>>
    /\ gw[i].completion.err = UnsupportedErr
    /\ Done(j) /\ gw[j].provider = Str("deepseek") /\ gw[j].outcome = Network
    /\ Len(gw[j].calls) = 1 /\ gw[j].calls[1].vendor = "deepseek"

(***************************************************************************)
(* Properties of requests from the front end  (checked under SpecFront)    *)
(***************************************************************************)
McpCalled(i) == app[i].mcp.method # ""

\* C20: whatever provider the front end submits with a create or a preview,
\* the controller calls McpClient without a provider, the provider sent to the
\* gateway is McpClient's configured default, and that one (not the gateway's
\* AI_PROVIDER default) is the provider the gateway dispatches to.
C20_FormProviderIgnored ==
  \A i \in Slots :
    McpCalled(i) =>
      /\ app[i].mcp.provider = Null
      /\ Handled(i) =>
           /\ gw[i].body.provider = mcpDefault
           /\ gw[i].provider = mcpDefault
           /\ gw[i].calls # <<>> /\ gw[i].calls[1].vendor = mcpDefault.v

C20_Witness ==
  \E i, j \in Slots :
    /\ app[i].op = "create" /\ app[i].st = "done" /\ app[i].status = 201
    /\ app[j].op = "preview" /\ app[j].st = "done" /\ app[j].status = 200
    /\ app[i].input.provider = Str("openai") /\ app[j].input.provider = Str("gemini")
    /\ mcpDefault = Str("groq") /\ defaultProvider = Str("deepseek")
    /\ gw[i].calls # <<>> /\ gw[i].calls[1].vendor = "groq"
    /\ gw[j].calls # <<>> /\ gw[j].calls[1].vendor = "groq"

(***************************************************************************)
(* Properties of the component  (checked under SpecUi)                     *)
(***************************************************************************)
Stored(proposal) == Found(db, proposal.id) /\ db[proposal.id] = proposal

\* C22: the component issues a preview request only for a proposal that a
\* create has returned; loading is true exactly while a handler awaits its
\* request, and no handler starts while loading is true; every request that
\* has started sets loading back to false; a create that fails leaves
\* proposal as it was and a preview that fails leaves htmlPreview as it was.
C22_ComponentRequests ==
  /\ [](/\ ui.loading <=> ui.pc # "idle"
        /\ ui.proposal # Null => Stored(ui.proposal)
        /\ (ui.pc = "preview" \/ app[UiSlot].op = "preview")
             => /\ ui.proposal # Null
                /\ app[UiSlot].op = "preview" => app[UiSlot].id = ui.proposal.id)
  /\ [][/\ (ui.pc = "idle" /\ ui'.pc # "idle") => ~ui.loading
        /\ (ui.pc = "submit" /\ ui'.pc = "idle" /\ ui'.caught = "submit")
             => ui'.proposal = ui.proposal
        /\ (ui.pc = "preview" /\ ui'.pc = "idle" /\ ui'.caught = "preview")
             => ui'.htmlPreview = ui.htmlPreview
        /\ ui.pc = "submit" => ui'.htmlPreview = ui.htmlPreview
        /\ ui.pc = "preview" => ui'.proposal = ui.proposal]_vars
  /\ (ui.loading ~> ~ui.loading)

C22_Witness ==
  /\ ui.pc = "idle" /\ ~ui.loading /\ ui.caught = "preview"
  /\ ui.proposal # Null /\ ui.htmlPreview = Str("We build high-quality applications.")

=============================================================================
